---- MODULE Spec2Model ----
(***************************************************************************)
(* FloxAI retrieval pipeline: chunking, embedding, the persistent vector   *)
(* collection, the two-pass search of FloxVectorRAGService and the         *)
(* boosting / ranking / context assembly of FloxRAGService.                *)
(*                                                                         *)
(* Texts are TLA+ strings.  Scores and distances are fixed-point numbers   *)
(* in thousandths (ONE = 1.0).                                             *)
(***************************************************************************)
EXTENDS Integers, Sequences, FiniteSets, TLC

(***************************************************************************)
(* String helpers (Python str operations used by the services)             *)
(***************************************************************************)
Min(a, b) == IF a <= b THEN a ELSE b

CharAt(s, i) == SubSeq(s, i, i)

Drop(s, k) == SubSeq(s, k + 1, Len(s))

Take(s, k) == SubSeq(s, 1, k)

\* s.startswith(p) at offset i (1-based)
StartsAt(s, i, p) == i + Len(p) - 1 <= Len(s) /\ SubSeq(s, i, i + Len(p) - 1) = p

\* `sub in s`
Contains(s, sub) == \E i \in 1..(Len(s) - Len(sub) + 1) : StartsAt(s, i, sub)

\* s.find(p, i): least offset >= i at which p occurs, 0 when there is none
FindFrom(s, i, p) ==
    LET hits == {j \in i..(Len(s) - Len(p) + 1) : StartsAt(s, j, p)}
    IN  IF hits = {} THEN 0 ELSE CHOOSE j \in hits : \A k \in hits : j <= k

IsSpace(c) == c \in {" ", "\n", "\t", "\r"}

LowerChar(c) ==
    CASE c = "A" -> "a" [] c = "B" -> "b" [] c = "C" -> "c" [] c = "D" -> "d"
      [] c = "E" -> "e" [] c = "F" -> "f" [] c = "G" -> "g" [] c = "H" -> "h"
      [] c = "I" -> "i" [] c = "J" -> "j" [] c = "K" -> "k" [] c = "L" -> "l"
      [] c = "M" -> "m" [] c = "N" -> "n" [] c = "O" -> "o" [] c = "P" -> "p"
      [] c = "Q" -> "q" [] c = "R" -> "r" [] c = "S" -> "s" [] c = "T" -> "t"
      [] c = "U" -> "u" [] c = "V" -> "v" [] c = "W" -> "w" [] c = "X" -> "x"
      [] c = "Y" -> "y" [] c = "Z" -> "z" [] OTHER -> c

\* `sub in s.lower()`: the characters of s are lowered as they are compared
InLower(s, sub) ==
    \E i \in 1..(Len(s) - Len(sub) + 1) :
        \A k \in 1..Len(sub) : LowerChar(CharAt(s, i + k - 1)) = CharAt(sub, k)

RECURSIVE LStrip(_)
LStrip(s) == IF s # "" /\ IsSpace(CharAt(s, 1)) THEN LStrip(Drop(s, 1)) ELSE s

RECURSIVE RStrip(_)
RStrip(s) ==
    IF s # "" /\ IsSpace(CharAt(s, Len(s))) THEN RStrip(Take(s, Len(s) - 1)) ELSE s

\* str.strip()
Strip(s) == RStrip(LStrip(s))

RECURSIVE ReplaceAll(_, _, _)
\* str.replace(old, new), old non-empty: leftmost occurrences, not overlapping
ReplaceAll(s, old, new) ==
    LET j == FindFrom(s, 1, old)
    IN  IF s = "" \/ j = 0 THEN s
        ELSE Take(s, j - 1) \o new \o ReplaceAll(Drop(s, j - 1 + Len(old)), old, new)

\* regex character classes: "space" is \s, "hash" is '#', "stop" is [.!?]
InClass(c, class) ==
    CASE class = "space" -> IsSpace(c)
      [] class = "hash"  -> c = "#"
      [] class = "stop"  -> c \in {".", "!", "?"}
      [] OTHER -> FALSE

\* least offset >= i of a character of the class, 0 when there is none
FindClass(s, i, class) ==
    LET hits == {j \in i..Len(s) : InClass(CharAt(s, j), class)}
    IN  IF hits = {} THEN 0 ELSE CHOOSE j \in hits : \A k \in hits : j <= k

RECURSIVE RunLen(_, _, _)
\* length of the run of characters of the class starting at offset i
RunLen(s, i, class) ==
    IF i <= Len(s) /\ InClass(CharAt(s, i), class) THEN 1 + RunLen(s, i + 1, class) ELSE 0


(***************************************************************************)
(* FloxEmbeddingService._clean_text and chunk_text                         *)
(***************************************************************************)
RECURSIVE Concat(_, _, _)
\* "".join(parts[lo..hi]), by halves
Concat(parts, lo, hi) ==
    IF lo > hi THEN ""
    ELSE IF lo = hi THEN parts[lo]
    ELSE LET mid == (lo + hi) \div 2
         IN  Concat(parts, lo, mid) \o Concat(parts, mid + 1, hi)

\* str.lower() on ASCII text
Lower(s) == Concat([i \in 1..Len(s) |-> LowerChar(CharAt(s, i))], 1, Len(s))

\* re.sub(r'\s+', ' ', text): the first character of a whitespace run becomes
\* one blank, the rest of the run disappears
CollapseSpace(s) ==
    LET piece(i) == IF ~IsSpace(CharAt(s, i)) THEN CharAt(s, i)
                    ELSE IF i = 1 \/ ~IsSpace(CharAt(s, i - 1)) THEN " "
                    ELSE ""
    IN  Concat([i \in 1..Len(s) |-> piece(i)], 1, Len(s))

RECURSIVE RemoveHeaders(_)
\* re.sub(r'#{1,6}\s+', '', text): a run of 1..6 '#' followed by whitespace
RemoveHeaders(s) ==
    LET j == FindClass(s, 1, "hash")
        h == RunLen(s, j, "hash")
        w == RunLen(s, j + h, "space")
    IN  IF s = "" \/ j = 0 THEN s
        ELSE IF h <= 6 /\ w >= 1
             THEN Take(s, j - 1) \o RemoveHeaders(Drop(s, j - 1 + h + w))
             ELSE Take(s, j) \o RemoveHeaders(Drop(s, j))

RECURSIVE RemoveDelims(_, _)
\* re.sub(d + r'(.*?)' + d, r'\1', text) for the delimiters of bold, italic
\* and inline code
RemoveDelims(s, d) ==
    LET o     == FindFrom(s, 1, d)
        j     == FindFrom(s, o + Len(d), d)
        inner == SubSeq(s, o + Len(d), j - 1)
    IN  IF s = "" \/ o = 0 THEN s
        ELSE IF j # 0 /\ ~Contains(inner, "\n")
             THEN Take(s, o - 1) \o inner \o RemoveDelims(Drop(s, j + Len(d) - 1), d)
             ELSE Take(s, o) \o RemoveDelims(Drop(s, o), d)

RECURSIVE RemoveLinks(_)
\* re.sub(r'\[([^\]]+)\]\([^)]+\)', r'\1', text)
RemoveLinks(s) ==
    LET o == FindFrom(s, 1, "[")
        j == FindFrom(s, o + 1, "]")
        k == IF j >= o + 2 /\ StartsAt(s, j + 1, "(") THEN FindFrom(s, j + 2, ")") ELSE 0
    IN  IF s = "" \/ o = 0 THEN s
        ELSE IF j >= o + 2 /\ k >= j + 3
             THEN Take(s, o - 1) \o SubSeq(s, o + 1, j - 1) \o RemoveLinks(Drop(s, k))
             ELSE Take(s, o) \o RemoveLinks(Drop(s, o))

\* The backquote character of the markdown code regex.  A TLA+ string cannot
\* hold a backquote, so the texts of this module write it as "~".
BACKQUOTE == "~"

ReplaceEntities(s) ==
    ReplaceAll(ReplaceAll(ReplaceAll(ReplaceAll(ReplaceAll(s,
        "&nbsp;", " "), "&amp;", "&"), "&lt;", "<"), "&gt;", ">"), "&quot;", "\"")

\* The statements of _clean_text in order, innermost first; each result is
\* bound before the next statement reads it.
_clean_text(text) ==
    IF text = "" THEN ""
    ELSE CHOOSE cleaned \in
            {Strip(t7) : t7 \in
            {RemoveLinks(t6) : t6 \in
            {RemoveDelims(t5, BACKQUOTE) : t5 \in
            {RemoveDelims(t4, "*") : t4 \in
            {RemoveDelims(t3, "**") : t3 \in
            {RemoveHeaders(t2) : t2 \in
            {ReplaceEntities(t1) : t1 \in
            {CollapseSpace(text)}}}}}}}} : TRUE

\* re.split(r'[.!?]+', text): a piece starts at offset 1 and after every run
\* of terminators, and runs up to the next terminator or the end of the text
SplitSentences(s) ==
    LET stop(i)  == InClass(CharAt(s, i), "stop")
        starts_  == {1} \cup {i \in 2..(Len(s) + 1) :
                                 stop(i - 1) /\ (i = Len(s) + 1 \/ ~stop(i))}
        piece(p) == LET q == FindClass(s, p, "stop")
                    IN  SubSeq(s, p, IF q = 0 THEN Len(s) ELSE q - 1)
    IN  [k \in 1..Cardinality(starts_) |->
            piece(CHOOSE p \in starts_ : Cardinality({x \in starts_ : x < p}) = k - 1)]

\* Python s[-k:]
Tail_k(s, k) == IF k = 0 \/ k >= Len(s) THEN s ELSE SubSeq(s, Len(s) - k + 1, Len(s))

\* variant of ChunkStep: a chunk is closed although current_chunk is empty
ChunkStep_closeempty(st, raw_sentence, max_size, overlap) ==
    LET sentence == Strip(raw_sentence)
        cur      == st.current_chunk
    IN  IF sentence = "" THEN st
        ELSE IF Len(cur) + Len(sentence) + 1 > max_size
             THEN LET overlap_text == IF Len(cur) > overlap THEN Tail_k(cur, overlap) ELSE ""
                  IN  [chunks        |-> Append(st.chunks, Strip(cur)),
                       current_chunk |-> overlap_text \o " " \o sentence]
             ELSE [chunks        |-> st.chunks,
                   current_chunk |-> IF cur # "" THEN cur \o " " \o sentence ELSE sentence]

\* variant of ChunkStep: the next chunk starts from the sentence alone
ChunkStep_nooverlap(st, raw_sentence, max_size, overlap) ==
    LET sentence == Strip(raw_sentence)
        cur      == st.current_chunk
    IN  IF sentence = "" THEN st
        ELSE IF Len(cur) + Len(sentence) + 1 > max_size /\ cur # ""
             THEN [chunks        |-> Append(st.chunks, Strip(cur)),
                   current_chunk |-> " " \o sentence]
             ELSE [chunks        |-> st.chunks,
                   current_chunk |-> IF cur # "" THEN cur \o " " \o sentence ELSE sentence]

\* one iteration of the sentence loop; st = [chunks, current_chunk]
ChunkStep(st, raw_sentence, max_size, overlap) ==
    LET sentence == Strip(raw_sentence)
        cur      == st.current_chunk
    IN  IF sentence = "" THEN st
        ELSE IF Len(cur) + Len(sentence) + 1 > max_size /\ cur # ""
             THEN LET overlap_text == IF Len(cur) > overlap THEN Tail_k(cur, overlap) ELSE ""
                  IN  [chunks        |-> Append(st.chunks, Strip(cur)),
                       current_chunk |-> overlap_text \o " " \o sentence]
             ELSE [chunks        |-> st.chunks,
                   current_chunk |-> IF cur # "" THEN cur \o " " \o sentence ELSE sentence]

RECURSIVE ChunkLoop(_, _, _, _)
ChunkLoop(st, sentences, max_size, overlap) ==
    IF sentences = <<>> THEN st
    ELSE ChunkLoop(ChunkStep(st, Head(sentences), max_size, overlap),
                   Tail(sentences), max_size, overlap)

\* FloxEmbeddingService.chunk_text with self.chunk_overlap passed as overlap;
\* the cleaned text and the sentences are bound before the loop reads them
chunk_text(text, max_size, overlap) ==
    CHOOSE chunks \in
        {LET st == ChunkLoop([chunks |-> <<>>, current_chunk |-> ""],
                             sentences, max_size, overlap)
         IN  IF Strip(st.current_chunk) # ""
             THEN Append(st.chunks, Strip(st.current_chunk))
             ELSE st.chunks :
           sentences \in {SplitSentences(cleaned) : cleaned \in {_clean_text(text)}}} : TRUE

(***************************************************************************)
(* Fixed-point scores and the embedding space                              *)
(***************************************************************************)
ONE == 1000

\* FloxEmbeddingService defaults
max_chunk_size == 500

chunk_overlap == 50

\* Embeddings are integer vectors of squared length NormSq (norm 5)
NormSq == 25

Dot(u, v) == u[1] * v[1] + u[2] * v[2]

\* cosine distance reported by the collection: 1 - cos(u, v)
CosineDistance(u, v) == ONE - (Dot(u, v) * ONE) \div NormSq

\* SentenceTransformer.encode: a deterministic map from text to a vector.
\* The table assigns one direction per topic word, first match first.
Encode(text) ==
    CASE InLower(text, "pasta")    -> <<0, 5>>
      [] InLower(text, "release")  -> <<-3, 4>>
      [] InLower(text, "nix")      -> <<3, 4>>
      [] InLower(text, "activate") -> <<4, 3>>
      [] InLower(text, "manifest") -> <<4, -3>>
      [] InLower(text, "flox")     -> <<5, 0>>
      [] OTHER                     -> <<0, -5>>

(***************************************************************************)
(* The documentation tree                                                  *)
(***************************************************************************)
\* the markdown files that may be found under docs_path
FileUniverse ==
    << [path |-> "docs/flox/intro.md",     readable |-> TRUE,
        content |-> "# Flox Basics\nFlox makes environments reproducible."],
       [path |-> "docs/blogs/intro.md",    readable |-> TRUE,
        content |-> "Use flox activate. Then *build* it!"],
       [path |-> "docs/misc/pasta.md",     readable |-> TRUE,
        content |-> "# Cooking\nPasta needs boiling water."],
       [path |-> "docs/nix/shell.md",      readable |-> TRUE,
        content |-> "A nix shell is like a Flox environment"],
       [path |-> "docs/flox/changelog.md", readable |-> TRUE,
        content |-> "Release notes."],
       [path |-> "docs/blogs/news.md",     readable |-> TRUE,
        content |-> "News: a manifest editor!"],
       [path |-> "docs/flox/manifest.md",  readable |-> TRUE,
        content |-> "The **manifest** of [Flox](https://flox.dev) lists packages."] >>

\* longer texts, for calls made outside the serving process
LongGuide ==
    "Flox environments are reproducible across machines and teams. " \o
    "The manifest lists every package that an environment installs. Activate it!"

ShortThenLong ==
    "Short one. The manifest lists every package that an environment installs " \o
    "for you. Done."

MarkdownGuide ==
    "# Guide\nInstall **flox** first.   Then run ~flox activate~ inside the " \o
    "[project](https://flox.dev) directory, and wait? Yes."

PinnedSentence ==
    "Flox environments are reproducible across machines and teams because " \o
    "the manifest pins every package that the environment installs"

LayeredSentence ==
    "A nix shell is like a Flox environment, but a Flox environment can be " \o
    "layered, shared with a team and activated from any directory"

EditorSentence ==
    "The manifest editor validates the package list before it writes the " \o
    "lock file, so that a broken manifest never reaches the team"

\* two sentences that do not fit one chunk of max_chunk_size together
TwoChunkDoc ==
    "# Handbook\n" \o PinnedSentence \o ", and " \o LayeredSentence \o "! " \o
    EditorSentence \o "; " \o PinnedSentence \o "."

\* three such sentences
ThreeChunkDoc ==
    TwoChunkDoc \o "\n\n" \o LayeredSentence \o ": " \o EditorSentence \o "?"

\* the contents handed to process_document on its own
DocContents == {"", "Release notes.", "Use flox activate. Then *build* it!",
                TwoChunkDoc, ThreeChunkDoc}

\* embedding_service.chunk_text(content) for the contents of the tree and of
\* the separate calls.  The chunks of a text depend on nothing else, so they
\* are computed once.
FileChunks ==
    [c \in {FileUniverse[i].content : i \in 1..Len(FileUniverse)} \cup DocContents |->
        chunk_text(c, max_chunk_size, chunk_overlap)]

(***************************************************************************)
(* FloxDocumentProcessor                                                   *)
(***************************************************************************)
RECURSIVE BaseName(_)
\* Path.name
BaseName(path) ==
    LET j == FindFrom(path, 1, "/")
    IN  IF j = 0 THEN path ELSE BaseName(Drop(path, j))

\* variant of _determine_doc_type: the nix test comes before the flox test
_determine_doc_type_nixfirst(file_path) ==
    IF InLower(file_path, "blogs") THEN "blog_post"
    ELSE IF InLower(file_path, "nix") THEN "nix_docs"
    ELSE IF InLower(file_path, "flox") THEN "flox_docs"
    ELSE IF InLower(file_path, "processed") THEN "processed_docs"
    ELSE "general"

\* lines 123-136
_determine_doc_type(file_path) ==
    IF InLower(file_path, "blogs") THEN "blog_post"
    ELSE IF InLower(file_path, "flox") THEN "flox_docs"
    ELSE IF InLower(file_path, "nix") THEN "nix_docs"
    ELSE IF InLower(file_path, "processed") THEN "processed_docs"
    ELSE "general"

\* the 'category' entry of _extract_metadata
MetadataCategory(file_path) ==
    IF Contains(file_path, "blogs") THEN "blog"
    ELSE IF Contains(file_path, "flox") THEN "flox_docs"
    ELSE IF Contains(file_path, "nix") THEN "nix_docs"
    ELSE "general"

RECURSIVE ChunkDocs_fromone(_, _, _, _, _)
\* variant of ChunkDocs: chunk_index counts from 1
ChunkDocs_fromone(file_path, doc_type, chunks, i, first_id) ==
    IF i > Len(chunks) THEN <<>>
    ELSE IF Strip(chunks[i]) = ""
         THEN ChunkDocs_fromone(file_path, doc_type, chunks, i + 1, first_id)
         ELSE <<[id           |-> first_id,
                 content      |-> chunks[i],
                 chunk_index  |-> i,
                 total_chunks |-> Len(chunks),
                 source_file  |-> file_path,
                 source_name  |-> BaseName(file_path),
                 doc_type     |-> doc_type,
                 category     |-> MetadataCategory(file_path)]>>
              \o ChunkDocs_fromone(file_path, doc_type, chunks, i + 1, first_id + 1)

RECURSIVE ChunkDocs(_, _, _, _, _)
\* the enumerate loop of process_document; ids are drawn from the uuid
\* sequence starting at first_id
ChunkDocs(file_path, doc_type, chunks, i, first_id) ==
    IF i > Len(chunks) THEN <<>>
    ELSE IF Strip(chunks[i]) = ""
         THEN ChunkDocs(file_path, doc_type, chunks, i + 1, first_id)
         ELSE <<[id           |-> first_id,
                 content      |-> chunks[i],
                 chunk_index  |-> i - 1,
                 total_chunks |-> Len(chunks),
                 source_file  |-> file_path,
                 source_name  |-> BaseName(file_path),
                 doc_type     |-> doc_type,
                 category     |-> MetadataCategory(file_path)]>>
              \o ChunkDocs(file_path, doc_type, chunks, i + 1, first_id + 1)

process_document(file_path, content, doc_type, first_id) ==
    ChunkDocs(file_path, doc_type, FileChunks[content], 1, first_id)

\* a file is [path, content, readable]; an unreadable file raises in open()
process_markdown_file(file, first_id) ==
    IF ~file.readable THEN <<>>
    ELSE process_document(file.path, file.content, _determine_doc_type(file.path), first_id)

RECURSIVE process_directory(_, _)
\* files: the rglob matches in traversal order
process_directory(files, first_id) ==
    IF files = <<>> THEN <<>>
    ELSE LET chunks == process_markdown_file(Head(files), first_id)
         IN  chunks \o process_directory(Tail(files), first_id + Len(chunks))

(***************************************************************************)
(* The collection (chromadb) and FloxVectorRAGService                      *)
(***************************************************************************)
\* the ids / embeddings / metadatas / documents rows built by load_documents
ChunkEntry(chunk) ==
    [id        |-> chunk.id,
     embedding |-> Encode(chunk.content),
     document  |-> chunk.content,
     metadata  |-> [source_file  |-> chunk.source_file,
                    source_name  |-> chunk.source_name,
                    doc_type     |-> chunk.doc_type,
                    chunk_index  |-> chunk.chunk_index,
                    total_chunks |-> chunk.total_chunks,
                    category     |-> chunk.category]]

ChunkEntries(chunks) == [i \in 1..Len(chunks) |-> ChunkEntry(chunks[i])]

RECURSIVE InsertBy(_, _, _)
\* insert row r after every row of the sorted list whose key is <= r's key
\* (desc = TRUE: >=), so that equal keys keep their arrival order
InsertBy(sorted, r, desc) ==
    IF sorted = <<>> THEN <<r>>
    ELSE IF (IF desc THEN Head(sorted).key >= r.key ELSE Head(sorted).key <= r.key)
         THEN <<Head(sorted)>> \o InsertBy(Tail(sorted), r, desc)
         ELSE <<r>> \o sorted

RECURSIVE StableSort(_, _)
\* stable sort of rows [key, val] by key
StableSort(rows, desc) ==
    IF rows = <<>> THEN <<>>
    ELSE InsertBy(StableSort(SubSeq(rows, 1, Len(rows) - 1), desc), rows[Len(rows)], desc)

\* collection.query(query_embeddings=[e], n_results=n, where={'doc_type': {'$in': types}})
\* types = {} stands for where=None.  Nearest first, ties in insertion order,
\* at most n rows.
CollectionQuery(coll, e, n, types) ==
    LET eligible == SelectSeq(coll, LAMBDA row : types = {} \/ row.metadata.doc_type \in types)
        rows     == [i \in 1..Len(eligible) |->
                        [key |-> CosineDistance(eligible[i].embedding, e),
                         val |-> eligible[i]]]
        sorted   == StableSort(rows, FALSE)
    IN  [i \in 1..Min(n, Len(sorted)) |->
            [document |-> sorted[i].val.document,
             metadata |-> sorted[i].val.metadata,
             distance |-> sorted[i].key]]

\* the result dict built in the loop of FloxVectorRAGService.search
SearchResult(row) ==
    [content         |-> row.document,
     source          |-> row.metadata.source_name,
     relevance_score |-> ONE - row.distance,
     doc_type        |-> row.metadata.doc_type,
     category        |-> row.metadata.category,
     chunk_index     |-> row.metadata.chunk_index,
     total_chunks    |-> row.metadata.total_chunks]

NoCall == [raised |-> FALSE, results |-> <<>>, embed_calls |-> 0, index_calls |-> 0]

\* variant of VectorSearch: the embedding and the index call are made outside
\* the try block, so what they raise leaves search
VectorSearch_unguarded(coll, is_ready, query, n_results, doc_types, fault) ==
    IF ~is_ready THEN NoCall
    ELSE IF Strip(query) = "" THEN NoCall
    ELSE IF fault = "embed"
         THEN [raised |-> TRUE, results |-> <<>>, embed_calls |-> 1, index_calls |-> 0]
    ELSE IF fault = "index"
         THEN [raised |-> TRUE, results |-> <<>>, embed_calls |-> 1, index_calls |-> 1]
    ELSE LET rows == CollectionQuery(coll, Encode(query), n_results, doc_types)
         IN  [raised      |-> FALSE,
              results     |-> [i \in 1..Len(rows) |-> SearchResult(rows[i])],
              embed_calls |-> 1,
              index_calls |-> 1]

\* FloxVectorRAGService.search.  fault names the call that raises inside the
\* try block: "none", "embed" (generate_embedding) or "index" (collection.query).
\* The except clause turns either into the empty list.
VectorSearch(coll, is_ready, query, n_results, doc_types, fault) ==
    IF ~is_ready THEN NoCall
    ELSE IF Strip(query) = "" THEN NoCall
    ELSE IF fault = "embed"
         THEN [raised |-> FALSE, results |-> <<>>, embed_calls |-> 1, index_calls |-> 0]
    ELSE IF fault = "index"
         THEN [raised |-> FALSE, results |-> <<>>, embed_calls |-> 1, index_calls |-> 1]
    ELSE LET rows == CollectionQuery(coll, Encode(query), n_results, doc_types)
         IN  [raised      |-> FALSE,
              results     |-> [i \in 1..Len(rows) |-> SearchResult(rows[i])],
              embed_calls |-> 1,
              index_calls |-> 1]

PreferredTypes == {"flox_docs", "blog_post"}

\* line 204: enough preferred results, return them
EnoughResults(flox_results, n_results) == Len(flox_results) >= n_results

\* variant of Pass2Count: the second search asks for n_results again
Pass2Count_whole(flox_results, n_results) == n_results

\* line 208: the n_results argument of the second search
Pass2Count(flox_results, n_results) == n_results - Len(flox_results)

\* f"{query} {context}".strip()
EnhancedQuery(query, context) == Strip(query \o " " \o context)

\* f"{result['source']}_{result.get('chunk_index', 0)}"
SourceKey(result) == result.source \o "_" \o ToString(result.chunk_index)

RECURSIVE Deduplicate(_, _)
\* the seen_sources loop of search_with_context
Deduplicate(all_results, seen_sources) ==
    IF all_results = <<>> THEN <<>>
    ELSE LET result == Head(all_results)
         IN  IF SourceKey(result) \in seen_sources
             THEN Deduplicate(Tail(all_results), seen_sources)
             ELSE <<result>> \o Deduplicate(Tail(all_results),
                                            seen_sources \cup {SourceKey(result)})

\* lines 210-221: combine, deduplicate, truncate
CombineResults(flox_results, general_results, n_results) ==
    LET unique_results == Deduplicate(flox_results \o general_results, {})
    IN  SubSeq(unique_results, 1, Min(n_results, Len(unique_results)))

(***************************************************************************)
(* FloxRAGService                                                          *)
(***************************************************************************)
RAG_CONTEXT == "flox development environment package management"

RAG_N_RESULTS == 5

flox_keywords == {"flox", "manifest", "environment", "package", "service", "activate"}

BOOST_TYPE == 1500

BOOST_CONTEXT == 1300

\* x * f for fixed-point x and factor f
Scale(x, f) == (x * f) \div ONE

has_flox_context(query) == \E word \in flox_keywords : InLower(query, word)

\* variant of BoostResult: the 1.3 factor is applied without looking at the
\* content of the result
BoostResult_anycontent(result, query) ==
    LET s1 == IF result.doc_type \in PreferredTypes
              THEN Scale(result.relevance_score, BOOST_TYPE)
              ELSE result.relevance_score
        s2 == IF has_flox_context(query) THEN Scale(s1, BOOST_CONTEXT) ELSE s1
    IN  [result EXCEPT !.relevance_score = Min(ONE, s2)]

\* the body of the boosting loop of FloxRAGService.search
BoostResult(result, query) ==
    LET s1 == IF result.doc_type \in PreferredTypes
              THEN Scale(result.relevance_score, BOOST_TYPE)
              ELSE result.relevance_score
        s2 == IF has_flox_context(query) /\ InLower(result.content, "flox")
              THEN Scale(s1, BOOST_CONTEXT)
              ELSE s1
    IN  [result EXCEPT !.relevance_score = Min(ONE, s2)]

\* variant of SortByScore: reverse=True left out
SortByScore_ascending(results) ==
    LET rows   == [i \in 1..Len(results) |->
                      [key |-> results[i].relevance_score, val |-> results[i]]]
        sorted == StableSort(rows, FALSE)
    IN  [i \in 1..Len(sorted) |-> sorted[i].val]

\* results.sort(key=relevance_score, reverse=True)
SortByScore(results) ==
    LET rows   == [i \in 1..Len(results) |->
                      [key |-> results[i].relevance_score, val |-> results[i]]]
        sorted == StableSort(rows, TRUE)
    IN  [i \in 1..Len(sorted) |-> sorted[i].val]

\* lines 173-194 of FloxRAGService.search, applied to the merged result list
BoostAndSort(results, query) ==
    SortByScore([i \in 1..Len(results) |-> BoostResult(results[i], query)])

\* variant of TypeLabel: a type without a mapping is labelled by its own name
TypeLabel_nodefault(doc_type) ==
    CASE doc_type = "flox_knowledge" -> "FloxAI Knowledge"
      [] doc_type = "flox_docs"      -> "Flox Documentation"
      [] doc_type = "best_practices" -> "Flox Best Practices"
      [] doc_type = "general"        -> "Documentation"
      [] OTHER                       -> doc_type

\* lines 230-235: the label of a doc_type, 'Documentation' by default
TypeLabel(doc_type) ==
    CASE doc_type = "flox_knowledge" -> "FloxAI Knowledge"
      [] doc_type = "flox_docs"      -> "Flox Documentation"
      [] doc_type = "best_practices" -> "Flox Best Practices"
      [] doc_type = "general"        -> "Documentation"
      [] OTHER                       -> "Documentation"

CONTEXT_TOP == 3

SEPARATOR == "\n\n---\n\n"

ContextPart(result) ==
    "[" \o TypeLabel(result.doc_type) \o "] " \o result.source \o "\n" \o result.content

RECURSIVE Join(_, _)
\* sep.join(parts)
Join(parts, sep) ==
    IF parts = <<>> THEN ""
    ELSE IF Len(parts) = 1 THEN parts[1]
    ELSE parts[1] \o sep \o Join(Tail(parts), sep)

\* variant of AssembleContext: a placeholder text stands in for the empty
\* context
AssembleContext_placeholder(results) ==
    IF results = <<>>
    THEN [context |-> "No relevant documentation found.", results |-> <<>>]
    ELSE LET top == SubSeq(results, 1, Min(CONTEXT_TOP, Len(results)))
         IN  [context |-> Join([i \in 1..Len(top) |-> ContextPart(top[i])], SEPARATOR),
              results |-> results]

\* get_context_for_query after search returned results
AssembleContext(results) ==
    IF results = <<>> THEN [context |-> "", results |-> <<>>]
    ELSE LET top == SubSeq(results, 1, Min(CONTEXT_TOP, Len(results)))
         IN  [context |-> Join([i \in 1..Len(top) |-> ContextPart(top[i])], SEPARATOR),
              results |-> results]

(***************************************************************************)
(* Inputs: the documentation tree and the queries                          *)
(***************************************************************************)
\* bounds
MaxFiles == 5

MaxStarts == 2

RECURSIVE Pick(_, _)
\* the files of the universe whose index is in S, in universe order
Pick(S, i) ==
    IF i > Len(FileUniverse) THEN <<>>
    ELSE (IF i \in S THEN <<FileUniverse[i]>> ELSE <<>>) \o Pick(S, i + 1)

Corpora ==
    {Pick(S, 1) : S \in {T \in SUBSET (1..Len(FileUniverse)) : Cardinality(T) <= MaxFiles}}

\* user messages handed to FloxRAGService
Queries == {"flox environment", "Pasta", "How to ACTIVATE"}

\* arguments of direct search_with_context calls
DirectQueries == {"", "flox environment"}

Contexts == {""}

NValues == {1, 3}

InitFaults == {"none", "embedder", "processor", "client", "collection"}

LoadFaults == {"none", "embed", "add"}

\* collection.get(limit=100) of get_collection_stats
STATS_SAMPLE == 100

COLLECTION_NAME == "floxai_documents"

SearchFaults == {"none", "embed", "index"}

(***************************************************************************)
(* State                                                                   *)
(***************************************************************************)
VARIABLES
    docs_exists,     \* Path(settings.docs_path).exists()
    corpus,          \* the markdown files under docs_path, in rglob order
    store,           \* rows of the persisted collection "floxai_documents"
    store_exists,    \* the collection exists in the persistent client
    next_id,         \* position in the uuid4 sequence
    phase,           \* "down", "constructed", "vector_done", "serving"
    starts,          \* number of process starts so far
    emb_ready,       \* vector_service.embedding_service.is_ready
    proc_ready,      \* vector_service.document_processor.is_ready
    has_collection,  \* vector_service.collection is not None
    vs_ready,        \* vector_service.is_ready
    rag_ready,       \* FloxRAGService.is_ready
    init_fault,      \* what failed in FloxVectorRAGService.initialize
    vinit_outcome,   \* how FloxVectorRAGService.initialize ended
    rinit_outcome,   \* how FloxRAGService.initialize ended
    load_fault,      \* the call that raised inside load_documents, "none" if none did
    loaded,          \* the chunk list load_documents handed to collection.add
    load_stats,      \* the dict load_documents returned
    q_pc,            \* position of the query in flight
    q_api,           \* entry point of the query
    q_query, q_context, q_n,
    flox_results, general_results,
    merged,          \* list returned by search_with_context
    q_results,       \* list returned to the caller
    q_context_out,   \* context string returned by get_context_for_query
    q_outcome,       \* "none", "returned", "raised"
    calls,           \* self.search invocations made by search_with_context
    index_log,       \* collection.query calls of this query
    embed_calls,     \* generate_embedding calls of this query
    c_pc,            \* position of the chunk_text call under test
    c_text, c_max,   \* its arguments text and max_size
    c_clean,         \* text after _clean_text
    c_sentences,     \* sentences the loop has not reached yet
    c_sentence,      \* the stripped sentence of the latest iteration
    c_before,        \* current_chunk when the latest iteration began
    c_closed,        \* the latest iteration appended to chunks
    c_current,       \* current_chunk
    c_chunks,        \* chunks
    d_pc,            \* position of the process_markdown_file call under test
    d_path,          \* its file_path
    d_content,       \* what the file holds
    d_type,          \* doc_type
    d_records,       \* the chunk records returned
    dir_pc,          \* position of the process_directory call under test
    dir_exists,      \* directory_path.exists()
    dir_files,       \* the rglob matches, in traversal order
    dir_i,           \* matches the loop has dealt with
    dir_chunks,      \* all_chunks
    dir_outcome,     \* "none", "returned", "raised"
    p_pc,            \* position of a second request served concurrently
    p_api,           \* "rag_search" or "stats"
    p_query,         \* its message
    p_flox,          \* its flox_results
    p_results,       \* the list it returned
    p_stats,         \* the dict get_collection_stats returned to it
    p_faulted,       \* one of its embedding or index calls failed
    m_pc,            \* position of the maintenance run under test
    m_op,            \* "migrate" (migrate_documents) or "clear" (clear_collection alone)
    m_prior,         \* rows of the collection when the run began
    m_prior_exists,  \* whether the collection existed then
    m_clear,         \* what clear_collection returned: "none", "true", "false"
    m_stats,         \* the dict load_documents returned
    m_result         \* "none", "true", "false", "raised"

service_vars == <<emb_ready, proc_ready, has_collection, vs_ready, rag_ready,
                  init_fault, vinit_outcome, rinit_outcome, load_fault,
                  loaded, load_stats>>

disk_vars == <<docs_exists, corpus, store, store_exists, next_id>>

query_vars == <<q_pc, q_api, q_query, q_context, q_n, flox_results, general_results,
                merged, q_results, q_context_out, q_outcome, calls, index_log,
                embed_calls>>

chunk_vars == <<c_pc, c_text, c_max, c_clean, c_sentences, c_sentence, c_before,
                c_closed, c_current, c_chunks>>

\* the calls of the units under test, outside the serving process
doc_vars == <<d_pc, d_path, d_content, d_type, d_records>>

dir_vars == <<dir_pc, dir_exists, dir_files, dir_i, dir_chunks, dir_outcome>>

peer_vars == <<p_pc, p_api, p_query, p_flox, p_results, p_stats, p_faulted>>

maint_vars == <<m_pc, m_op, m_prior, m_prior_exists, m_clear, m_stats, m_result>>

unit_vars == <<chunk_vars, doc_vars, dir_vars, peer_vars, maint_vars>>

vars == <<disk_vars, phase, starts, service_vars, query_vars, unit_vars>>

QueryReset ==
    /\ q_pc = "idle"
    /\ q_api = "none"
    /\ q_query = ""
    /\ q_context = ""
    /\ q_n = 0
    /\ flox_results = <<>>
    /\ general_results = <<>>
    /\ merged = <<>>
    /\ q_results = <<>>
    /\ q_context_out = ""
    /\ q_outcome = "none"
    /\ calls = <<>>
    /\ index_log = <<>>
    /\ embed_calls = 0

QueryResetNext ==
    /\ q_pc' = "idle"
    /\ q_api' = "none"
    /\ q_query' = ""
    /\ q_context' = ""
    /\ q_n' = 0
    /\ flox_results' = <<>>
    /\ general_results' = <<>>
    /\ merged' = <<>>
    /\ q_results' = <<>>
    /\ q_context_out' = ""
    /\ q_outcome' = "none"
    /\ calls' = <<>>
    /\ index_log' = <<>>
    /\ embed_calls' = 0

ServiceReset ==
    /\ emb_ready = FALSE
    /\ proc_ready = FALSE
    /\ has_collection = FALSE
    /\ vs_ready = FALSE
    /\ rag_ready = FALSE
    /\ init_fault = "none"
    /\ vinit_outcome = "none"
    /\ rinit_outcome = "none"
    /\ load_fault = "none"
    /\ loaded = <<>>
    /\ load_stats = [status |-> "none"]

ServiceResetNext ==
    /\ emb_ready' = FALSE
    /\ proc_ready' = FALSE
    /\ has_collection' = FALSE
    /\ vs_ready' = FALSE
    /\ rag_ready' = FALSE
    /\ init_fault' = "none"
    /\ vinit_outcome' = "none"
    /\ rinit_outcome' = "none"
    /\ load_fault' = "none"
    /\ loaded' = <<>>
    /\ load_stats' = [status |-> "none"]

\* no chunk_text call under test
ChunkIdle ==
    /\ c_pc = "idle"
    /\ c_text = ""
    /\ c_max = 0
    /\ c_clean = ""
    /\ c_sentences = <<>>
    /\ c_sentence = ""
    /\ c_before = ""
    /\ c_closed = FALSE
    /\ c_current = ""
    /\ c_chunks = <<>>

\* no process_markdown_file call under test
DocIdle ==
    /\ d_pc = "idle"
    /\ d_path = ""
    /\ d_content = ""
    /\ d_type = ""
    /\ d_records = <<>>

\* no process_directory call under test
DirIdle ==
    /\ dir_pc = "idle"
    /\ dir_exists = FALSE
    /\ dir_files = <<>>
    /\ dir_i = 0
    /\ dir_chunks = <<>>
    /\ dir_outcome = "none"

\* no second request in flight
PeerIdle ==
    /\ p_pc = "idle"
    /\ p_api = "none"
    /\ p_query = ""
    /\ p_flox = <<>>
    /\ p_results = <<>>
    /\ p_stats = [error |-> "none"]
    /\ p_faulted = FALSE

\* no maintenance run under test
MaintIdle ==
    /\ m_pc = "idle"
    /\ m_op = "none"
    /\ m_prior = <<>>
    /\ m_prior_exists = FALSE
    /\ m_clear = "none"
    /\ m_stats = [status |-> "none"]
    /\ m_result = "none"

Init ==
    /\ docs_exists \in BOOLEAN
    /\ corpus \in IF docs_exists THEN Corpora ELSE {<<>>}
    /\ store = <<>>
    /\ store_exists = FALSE
    /\ next_id = 1
    /\ phase = "down"
    /\ starts = 0
    /\ ServiceReset
    /\ QueryReset
    /\ ChunkIdle
    /\ DocIdle
    /\ DirIdle
    /\ PeerIdle
    /\ MaintIdle

(***************************************************************************)
(* Start-up: lifespan -> FloxRAGService.initialize                         *)
(***************************************************************************)
\* collection.add(ids, embeddings, metadatas, documents): a row whose id is
\* already stored replaces that row, the other rows are appended
RECURSIVE CollectionAdd(_, _)
CollectionAdd(coll, entries) ==
    IF entries = <<>> THEN coll
    ELSE LET e    == Head(entries)
             hit  == {i \in 1..Len(coll) : coll[i].id = e.id}
             next == IF hit = {} THEN Append(coll, e)
                     ELSE [i \in 1..Len(coll) |-> IF i \in hit THEN e ELSE coll[i]]
         IN  CollectionAdd(next, Tail(entries))

\* a new process: FloxRAGService() and its FloxVectorRAGService() are built
StartProcess ==
    /\ phase = "down"
    /\ starts < MaxStarts
    /\ phase' = "constructed"
    /\ starts' = starts + 1
    /\ ServiceResetNext
    /\ QueryResetNext
    /\ UNCHANGED disk_vars
    /\ UNCHANGED unit_vars

\* variant of VectorInitOutcome: the except clause re-raises
VectorInitOutcome_reraise(fault) == IF fault = "none" THEN "returned" ELSE "raised"

\* how FloxVectorRAGService.initialize ends for a fault raised inside its
\* try block: the except clause swallows it
VectorInitOutcome(fault) == "returned"

\* lines 34-73 of FloxVectorRAGService.initialize: the sub-services, the
\* client, get_collection or else create_collection, then is_ready; fault
\* names the step that raises
VectorInitEffects(fault) ==
    /\ init_fault' = fault
    /\ emb_ready' = (fault # "embedder")
    /\ proc_ready' = (fault \notin {"embedder", "processor"})
    /\ has_collection' = (fault = "none")
    /\ vs_ready' = (fault = "none")
    /\ vinit_outcome' = VectorInitOutcome(fault)
    /\ IF fault = "none" /\ ~store_exists
       THEN store_exists' = TRUE /\ store' = <<>>
       ELSE UNCHANGED <<store_exists, store>>

\* FloxVectorRAGService.initialize.  The start-up coroutines never yield to
\* the event loop, so they run between requests (q_pc = "idle").
VectorInitialize(fault) ==
    /\ phase = "constructed"
    /\ q_pc = "idle"
    /\ VectorInitEffects(fault)
    /\ phase' = "vector_done"
    /\ UNCHANGED <<docs_exists, corpus, next_id, starts, rag_ready, rinit_outcome,
                   load_fault, loaded, load_stats, query_vars>>
    /\ UNCHANGED unit_vars

\* FloxDocumentProcessor.get_document_stats (token totals left out)
get_document_stats(chunks) ==
    IF chunks = <<>>
    THEN [total_chunks |-> 0, total_documents |-> 0, doc_types |-> <<>>]
    ELSE [total_chunks    |-> Len(chunks),
          total_documents |-> Cardinality({chunks[i].source_file : i \in 1..Len(chunks)}),
          doc_types       |-> [t \in {chunks[i].doc_type : i \in 1..Len(chunks)} |->
                                 Cardinality({i \in 1..Len(chunks) : chunks[i].doc_type = t})]]

\* lines 128-137 of load_documents: the stats dict with status and
\* chunks_processed added
LoadStats(chunks) ==
    LET stats == get_document_stats(chunks)
    IN  [status           |-> "success",
         chunks_processed |-> Len(chunks),
         total_chunks     |-> stats.total_chunks,
         total_documents  |-> stats.total_documents,
         doc_types        |-> stats.doc_types]

\* FloxVectorRAGService.get_collection_stats when collection.count() and
\* collection.get() do not raise
get_collection_stats(coll, is_ready, collection_set) ==
    IF ~is_ready \/ ~collection_set THEN [error |-> "Service not initialized"]
    ELSE LET sample == SubSeq(coll, 1, Min(STATS_SAMPLE, Len(coll)))
         IN  [total_chunks |-> Len(coll),
              doc_types    |-> [t \in {sample[i].metadata.doc_type : i \in 1..Len(sample)} |->
                                  Cardinality({i \in 1..Len(sample) :
                                                  sample[i].metadata.doc_type = t})],
              categories   |-> [c \in {sample[i].metadata.category : i \in 1..Len(sample)} |->
                                  Cardinality({i \in 1..Len(sample) :
                                                  sample[i].metadata.category = c})],
              collection_name |-> COLLECTION_NAME]

\* variant of VectorLoadDocuments: chunks are embedded and stored one at a
\* time, so a failing embedding call leaves the earlier chunks stored
VectorLoadDocuments_piecewise(coll, files, first_id, fault) ==
    LET chunks == process_directory(files, first_id)
    IN  IF chunks = <<>>
        THEN [raised |-> FALSE, store |-> coll, ids |-> 0, added |-> <<>>,
              stats |-> [status |-> "no_documents", chunks_processed |-> 0]]
        ELSE IF fault = "embed"
        THEN [raised |-> TRUE,
              store  |-> CollectionAdd(coll, ChunkEntries(SubSeq(chunks, 1, Len(chunks) - 1))),
              ids |-> Len(chunks), added |-> <<>>, stats |-> [status |-> "none"]]
        ELSE IF fault = "add"
        THEN [raised |-> TRUE, store |-> coll, ids |-> Len(chunks), added |-> <<>>,
              stats |-> [status |-> "none"]]
        ELSE [raised |-> FALSE, store |-> CollectionAdd(coll, ChunkEntries(chunks)),
              ids |-> Len(chunks), added |-> chunks,
              stats |-> LoadStats(chunks)]

\* FloxVectorRAGService.load_documents on a ready service: whether it
\* raised, the collection afterwards, the uuids drawn, the chunks added and
\* the dict returned
VectorLoadDocuments(coll, files, first_id, fault) ==
    LET chunks == process_directory(files, first_id)
    IN  IF chunks = <<>>
        THEN [raised |-> FALSE, store |-> coll, ids |-> 0, added |-> <<>>,
              stats |-> [status |-> "no_documents", chunks_processed |-> 0]]
        ELSE IF fault \in {"embed", "add"}
        THEN [raised |-> TRUE, store |-> coll, ids |-> Len(chunks), added |-> <<>>,
              stats |-> [status |-> "none"]]
        ELSE [raised |-> FALSE, store |-> CollectionAdd(coll, ChunkEntries(chunks)),
              ids |-> Len(chunks), added |-> chunks,
              stats |-> LoadStats(chunks)]

\* the rest of FloxRAGService.initialize after vector_service.initialize:
\* an exception of line 22 propagates; otherwise load_documents, then the
\* readiness flag
RagInitialize(fault) ==
    /\ phase = "vector_done"
    /\ q_pc = "idle"
    /\ IF vinit_outcome = "raised"
       THEN /\ rinit_outcome' = "raised"
            /\ UNCHANGED <<store, next_id, rag_ready, load_fault, loaded, load_stats>>
       ELSE IF vs_ready
       THEN IF ~docs_exists
            THEN /\ rag_ready' = TRUE
                 /\ rinit_outcome' = "returned"
                 /\ UNCHANGED <<store, next_id, load_fault, loaded, load_stats>>
            ELSE \E r \in {VectorLoadDocuments(store, corpus, next_id, fault)} :
                     /\ store' = r.store
                     /\ next_id' = next_id + r.ids
                     /\ rag_ready' = ~r.raised
                     /\ rinit_outcome' = IF r.raised THEN "raised" ELSE "returned"
                     /\ load_fault' = IF r.raised THEN fault ELSE "none"
                     /\ loaded' = r.added
                     /\ load_stats' = r.stats
       ELSE /\ rag_ready' = FALSE
            /\ rinit_outcome' = "returned"
            /\ UNCHANGED <<store, next_id, load_fault, loaded, load_stats>>
    /\ phase' = "serving"
    /\ UNCHANGED <<docs_exists, corpus, store_exists, starts, emb_ready, proc_ready,
                   has_collection, vs_ready, init_fault, vinit_outcome, query_vars>>
    /\ UNCHANGED unit_vars

\* the process exits; only the persisted collection survives
StopProcess ==
    /\ phase = "serving"
    /\ q_pc = "idle"
    /\ phase' = "down"
    /\ ServiceResetNext
    /\ QueryResetNext
    /\ UNCHANGED <<disk_vars, starts>>
    /\ UNCHANGED unit_vars

(***************************************************************************)
(* Queries                                                                 *)
(***************************************************************************)
\* what the entry point returns once search_with_context has returned m
Finalize(api, m, query) ==
    IF api = "swc" THEN [results |-> m, context |-> ""]
    ELSE IF api = "rag_search" THEN [results |-> BoostAndSort(m, query), context |-> ""]
    ELSE AssembleContext(BoostAndSort(m, query))

Return(m) ==
    \E f \in {Finalize(q_api', m, q_query')} :
        /\ merged' = m
        /\ q_results' = f.results
        /\ q_context_out' = f.context
        /\ q_outcome' = "returned"
        /\ q_pc' = "done"

\* variant of RagNotReady: FloxRAGService.search does not test is_ready
RagNotReady_open(api, is_ready) == FALSE

\* lines 163-164: FloxRAGService.search returns [] at once when is_ready is
\* false (get_context_for_query goes through search); search_with_context
\* called directly does not pass this test
RagNotReady(api, is_ready) == api # "swc" /\ ~is_ready

\* entry of FloxRAGService.search / get_context_for_query (n = 5, fixed
\* context) or of FloxVectorRAGService.search_with_context ("swc")
StartQuery(api, query, context, n) ==
    /\ phase # "down"
    /\ q_pc = "idle"
    /\ q_api' = api
    /\ q_query' = query
    /\ q_context' = context
    /\ q_n' = n
    /\ flox_results' = <<>>
    /\ general_results' = <<>>
    /\ calls' = <<>>
    /\ index_log' = <<>>
    /\ embed_calls' = 0
    /\ IF RagNotReady(api, rag_ready)
       THEN /\ merged' = <<>>
            /\ q_results' = <<>>
            /\ q_context_out' = ""
            /\ q_outcome' = "returned"
            /\ q_pc' = "done"
       ELSE IF ~vs_ready
       THEN Return(<<>>)
       ELSE /\ q_pc' = "pass1"
            /\ q_outcome' = "none"
            /\ merged' = <<>>
            /\ q_results' = <<>>
            /\ q_context_out' = ""
    /\ UNCHANGED <<disk_vars, phase, starts, service_vars>>
    /\ UNCHANGED unit_vars

RagQuery(api, query) == StartQuery(api, query, RAG_CONTEXT, RAG_N_RESULTS)

DirectQuery(query, context, n) == StartQuery("swc", query, context, n)

LogSearch(pass, n, types, fault, r) ==
    /\ calls' = Append(calls, [pass |-> pass, n_results |-> n, doc_types |-> types,
                               fault |-> fault, returned |-> Len(r.results)])
    /\ index_log' = IF r.index_calls = 1
                    THEN Append(index_log, [pass |-> pass, n_results |-> n, doc_types |-> types])
                    ELSE index_log
    /\ embed_calls' = embed_calls + r.embed_calls

\* variant of SearchEffects: a failed call marks the service not ready
SearchEffects_trip(fault) ==
    /\ vs_ready' = (vs_ready /\ fault = "none")
    /\ UNCHANGED <<disk_vars, phase, starts, emb_ready, proc_ready, has_collection,
                   rag_ready, init_fault, vinit_outcome, rinit_outcome, load_fault,
                   loaded, load_stats>>

\* what one FloxVectorRAGService.search call leaves behind in the service and
\* on disk: it reads is_ready, the embedder and the collection and assigns
\* none of them, on the normal path and in the except clause alike
SearchEffects(fault) ==
    UNCHANGED <<disk_vars, phase, starts, service_vars>>

\* line 201: the filtered search, then the early return of line 204
Pass1(fault) ==
    /\ q_pc = "pass1"
    /\ \E r \in {VectorSearch(store, vs_ready, EnhancedQuery(q_query, q_context),
                              q_n, PreferredTypes, fault)} :
           /\ LogSearch(1, q_n, PreferredTypes, fault, r)
           /\ flox_results' = r.results
           /\ UNCHANGED <<q_api, q_query, q_context, q_n, general_results>>
           /\ IF r.raised
              THEN /\ q_outcome' = "raised"
                   /\ q_pc' = "done"
                   /\ UNCHANGED <<merged, q_results, q_context_out>>
              ELSE IF EnoughResults(r.results, q_n)
              THEN Return(r.results)
              ELSE /\ q_pc' = "pass2"
                   /\ UNCHANGED <<merged, q_results, q_context_out, q_outcome>>
    /\ SearchEffects(fault)
    /\ UNCHANGED unit_vars

\* line 208: the unfiltered search, then combine / deduplicate / truncate
Pass2(fault) ==
    /\ q_pc = "pass2"
    /\ \E r \in {VectorSearch(store, vs_ready, EnhancedQuery(q_query, q_context),
                              Pass2Count(flox_results, q_n), {}, fault)} :
           /\ LogSearch(2, Pass2Count(flox_results, q_n), {}, fault, r)
           /\ general_results' = r.results
           /\ UNCHANGED <<q_api, q_query, q_context, q_n, flox_results>>
           /\ IF r.raised
              THEN /\ q_outcome' = "raised"
                   /\ q_pc' = "done"
                   /\ UNCHANGED <<merged, q_results, q_context_out>>
              ELSE Return(CombineResults(flox_results, r.results, q_n))
    /\ SearchEffects(fault)
    /\ UNCHANGED unit_vars

\* the caller has its answer; the next request can arrive
Deliver ==
    /\ q_pc = "done"
    /\ QueryResetNext
    /\ UNCHANGED <<disk_vars, phase, starts, service_vars>>
    /\ UNCHANGED unit_vars

Next ==
    \/ StartProcess
    \/ \E fault \in InitFaults : VectorInitialize(fault)
    \/ \E fault \in LoadFaults : RagInitialize(fault)
    \/ StopProcess
    \/ \E api \in {"rag_search", "get_context"}, query \in Queries : RagQuery(api, query)
    \/ \E query \in DirectQueries, context \in Contexts, n \in NValues :
          DirectQuery(query, context, n)
    \/ \E fault \in SearchFaults : Pass1(fault)
    \/ \E fault \in SearchFaults : Pass2(fault)
    \/ Deliver

Spec == Init /\ [][Next]_vars

(***************************************************************************)
(* Two requests served concurrently by an initialized service              *)
(***************************************************************************)
\* the documentation trees the service was started over
PairCorpora == {<<>>, Pick({1, 2, 3}, 1), Pick({2, 3, 4, 6}, 1)}

\* the process has started once over an absent store, both initialize
\* coroutines have returned without a fault, and no request is in flight
PairInit ==
    /\ docs_exists = TRUE
    /\ corpus \in PairCorpora
    /\ \E r \in {VectorLoadDocuments(<<>>, corpus, 1, "none")} :
           /\ store = r.store
           /\ next_id = 1 + r.ids
           /\ loaded = r.added
           /\ load_stats = r.stats
    /\ store_exists = TRUE
    /\ phase = "serving"
    /\ starts = 1
    /\ emb_ready = TRUE
    /\ proc_ready = TRUE
    /\ has_collection = TRUE
    /\ vs_ready = TRUE
    /\ rag_ready = TRUE
    /\ init_fault = "none"
    /\ vinit_outcome = "returned"
    /\ rinit_outcome = "returned"
    /\ load_fault = "none"
    /\ QueryReset
    /\ ChunkIdle
    /\ DocIdle
    /\ DirIdle
    /\ PeerIdle
    /\ MaintIdle

\* what the steps of the second request leave alone besides the service
PeerFrame == UNCHANGED <<query_vars, chunk_vars, doc_vars, dir_vars, maint_vars>>

\* the second request enters FloxRAGService.search (lines 161-164)
PeerStart(query) ==
    /\ p_pc = "idle"
    /\ p_api' = "rag_search"
    /\ p_query' = query
    /\ p_pc' = IF rag_ready THEN "pass1" ELSE "done"
    /\ UNCHANGED <<p_flox, p_results, p_stats, p_faulted>>
    /\ UNCHANGED <<disk_vars, phase, starts, service_vars>>
    /\ PeerFrame

\* its first search (line 201) and the early return of line 204
PeerPass1(fault) ==
    /\ p_pc = "pass1"
    /\ \E r \in {VectorSearch(store, vs_ready, EnhancedQuery(p_query, RAG_CONTEXT),
                              RAG_N_RESULTS, PreferredTypes, fault)} :
           /\ p_flox' = r.results
           /\ p_faulted' = (p_faulted \/ fault # "none")
           /\ IF EnoughResults(r.results, RAG_N_RESULTS)
              THEN /\ p_results' = BoostAndSort(r.results, p_query)
                   /\ p_pc' = "done"
              ELSE /\ p_pc' = "pass2"
                   /\ UNCHANGED p_results
    /\ UNCHANGED <<p_api, p_query, p_stats>>
    /\ SearchEffects(fault)
    /\ PeerFrame

\* its second search (line 208), the merge, then boosting and sorting
PeerPass2(fault) ==
    /\ p_pc = "pass2"
    /\ \E r \in {VectorSearch(store, vs_ready, EnhancedQuery(p_query, RAG_CONTEXT),
                              Pass2Count(p_flox, RAG_N_RESULTS), {}, fault)} :
           /\ p_results' = BoostAndSort(CombineResults(p_flox, r.results, RAG_N_RESULTS),
                                        p_query)
           /\ p_faulted' = (p_faulted \/ fault # "none")
    /\ p_pc' = "done"
    /\ UNCHANGED <<p_api, p_query, p_flox, p_stats>>
    /\ SearchEffects(fault)
    /\ PeerFrame

\* the second request is a get_collection_stats call instead
PeerStats ==
    /\ p_pc = "idle"
    /\ p_api' = "stats"
    /\ p_stats' = get_collection_stats(store, vs_ready, has_collection)
    /\ p_pc' = "done"
    /\ UNCHANGED <<p_query, p_flox, p_results, p_faulted>>
    /\ UNCHANGED <<disk_vars, phase, starts, service_vars>>
    /\ PeerFrame

\* the second caller has its answer
PeerDeliver ==
    /\ p_pc = "done"
    /\ p_pc' = "idle"
    /\ p_api' = "none"
    /\ p_query' = ""
    /\ p_flox' = <<>>
    /\ p_results' = <<>>
    /\ p_stats' = [error |-> "none"]
    /\ p_faulted' = FALSE
    /\ UNCHANGED <<disk_vars, phase, starts, service_vars>>
    /\ PeerFrame

PairNext ==
    \/ \E api \in {"rag_search", "get_context"}, query \in Queries : RagQuery(api, query)
    \/ \E query \in DirectQueries, context \in Contexts, n \in NValues :
          DirectQuery(query, context, n)
    \/ \E fault \in SearchFaults : Pass1(fault)
    \/ \E fault \in SearchFaults : Pass2(fault)
    \/ Deliver
    \/ \E query \in Queries : PeerStart(query)
    \/ \E fault \in SearchFaults : PeerPass1(fault)
    \/ \E fault \in SearchFaults : PeerPass2(fault)
    \/ PeerStats
    \/ PeerDeliver

PairSpec == PairInit /\ [][PairNext]_vars

(***************************************************************************)
(* The migration script and clear_collection, run while the backend is     *)
(* down                                                                    *)
(***************************************************************************)
\* the documentation trees of the run
MaintCorpora == {<<>>, Pick({1}, 1), Pick({1, 2, 3}, 1)}

\* the trees an earlier run filled the collection from
PriorCorpora == {Pick({2}, 1), Pick({1, 2, 3}, 1)}

\* the call of clear_collection that raises: none, delete_collection (line
\* 259) or create_collection (line 260)
ClearFaults == {"none", "delete", "create"}

\* migrate_documents() or clear_collection() is about to run on a new
\* FloxVectorRAGService, over a store that is absent, empty, or filled by an
\* earlier run
MaintInit ==
    /\ docs_exists \in BOOLEAN
    /\ corpus \in IF docs_exists THEN MaintCorpora ELSE {<<>>}
    /\ \/ store_exists = FALSE /\ store = <<>>
       \/ store_exists = TRUE /\ store = <<>>
       \/ /\ store_exists = TRUE
          /\ \E c \in PriorCorpora : store = VectorLoadDocuments(<<>>, c, 1, "none").store
    /\ next_id = Len(store) + 1
    /\ phase = "down"
    /\ starts = 0
    /\ ServiceReset
    /\ QueryReset
    /\ ChunkIdle
    /\ DocIdle
    /\ DirIdle
    /\ PeerIdle
    /\ m_pc = "called"
    /\ m_op \in {"migrate", "clear"}
    /\ m_prior = store
    /\ m_prior_exists = store_exists
    /\ m_clear = "none"
    /\ m_stats = [status |-> "none"]
    /\ m_result = "none"

\* what the steps of the run leave alone
MaintFrame ==
    UNCHANGED <<docs_exists, corpus, phase, starts, rag_ready, rinit_outcome, load_fault,
                loaded, load_stats, query_vars, chunk_vars, doc_vars, dir_vars, peer_vars,
                m_op, m_prior, m_prior_exists>>

\* lines 21-22 of migrate_documents: a new service is initialized
MaintInitialize(fault) ==
    /\ m_pc = "called"
    /\ VectorInitEffects(fault)
    /\ m_pc' = "initialized"
    /\ UNCHANGED <<next_id, m_clear, m_stats, m_result>>
    /\ MaintFrame

\* lines 24-34 of migrate_documents: the two early returns.  A
\* clear_collection call made on its own goes ahead in any service state.
MaintCheck ==
    /\ m_pc = "initialized"
    /\ IF m_op = "migrate" /\ (~vs_ready \/ ~docs_exists)
       THEN m_result' = "false" /\ m_pc' = "done"
       ELSE m_result' = m_result /\ m_pc' = "clear"
    /\ UNCHANGED <<store, store_exists, next_id, emb_ready, proc_ready, has_collection,
                   vs_ready, init_fault, vinit_outcome, m_clear, m_stats>>
    /\ MaintFrame

\* FloxVectorRAGService.clear_collection: what it returns and the persisted
\* collection afterwards.  When create_collection raises, delete_collection
\* has already dropped the collection and self.collection keeps the old
\* handle.
clear_collection(coll, exists, is_ready, collection_set, fault) ==
    IF ~is_ready \/ ~collection_set
    THEN [result |-> FALSE, store |-> coll, store_exists |-> exists]
    ELSE IF fault = "delete"
    THEN [result |-> FALSE, store |-> coll, store_exists |-> exists]
    ELSE IF fault = "create"
    THEN [result |-> FALSE, store |-> <<>>, store_exists |-> FALSE]
    ELSE [result |-> TRUE, store |-> <<>>, store_exists |-> TRUE]

\* line 40 of migrate_documents, whose return value is dropped, or the
\* clear_collection call made on its own
MaintClear(fault) ==
    /\ m_pc = "clear"
    /\ \E r \in {clear_collection(store, store_exists, vs_ready, has_collection, fault)} :
           /\ store' = r.store
           /\ store_exists' = r.store_exists
           /\ m_clear' = IF r.result THEN "true" ELSE "false"
    /\ IF m_op = "clear"
       THEN m_result' = m_clear' /\ m_pc' = "done"
       ELSE m_result' = m_result /\ m_pc' = "load"
    /\ UNCHANGED <<next_id, emb_ready, proc_ready, has_collection, vs_ready, init_fault,
                   vinit_outcome, m_stats>>
    /\ MaintFrame

\* lines 44-66 of migrate_documents: load_documents, then True for status
\* 'success' (the trial search of line 54 reads only) and False otherwise.
\* collection.add through the handle of a dropped collection raises.
MaintLoad(fault) ==
    /\ m_pc = "load"
    /\ \E r \in {VectorLoadDocuments(store, corpus, next_id,
                     IF ~store_exists /\ fault = "none" THEN "add" ELSE fault)} :
           /\ store' = r.store
           /\ next_id' = next_id + r.ids
           /\ m_stats' = r.stats
           /\ m_result' = IF r.raised THEN "raised"
                          ELSE IF r.stats.status = "success" THEN "true" ELSE "false"
    /\ m_pc' = "done"
    /\ UNCHANGED <<store_exists, emb_ready, proc_ready, has_collection, vs_ready,
                   init_fault, vinit_outcome, m_clear>>
    /\ MaintFrame

MaintNext ==
    \/ \E fault \in InitFaults : MaintInitialize(fault)
    \/ MaintCheck
    \/ \E fault \in ClearFaults : MaintClear(fault)
    \/ \E fault \in LoadFaults : MaintLoad(fault)

MaintSpec == MaintInit /\ [][MaintNext]_vars

(***************************************************************************)
(* chunk_text called on its own: one call, statement by statement          *)
(***************************************************************************)
\* the texts handed to chunk_text
ChunkTexts ==
    {"", "  \n ", "...", "?!", "Release notes.", "No punctuation here",
     "Use flox activate. Then *build* it!",
     "# Flox Basics\nFlox makes environments reproducible.",
     "a.b!c?d...e", "  padded text  ",
     LongGuide, ShortThenLong, MarkdownGuide}

\* the values of max_size; the last one is the default
ChunkSizes == {20, 40, 80, max_chunk_size}

\* the serving process is down and nothing is on disk
ProcessDown ==
    /\ docs_exists = FALSE
    /\ corpus = <<>>
    /\ store = <<>>
    /\ store_exists = FALSE
    /\ next_id = 1
    /\ phase = "down"
    /\ starts = 0
    /\ ServiceReset
    /\ QueryReset

process_vars == <<disk_vars, phase, starts, service_vars, query_vars>>

\* chunk_text(text, max_size) has been called
ChunkInit ==
    /\ ProcessDown
    /\ DocIdle
    /\ DirIdle
    /\ PeerIdle
    /\ MaintIdle
    /\ c_pc = "called"
    /\ c_text \in ChunkTexts
    /\ c_max \in ChunkSizes
    /\ c_clean = ""
    /\ c_sentences = <<>>
    /\ c_sentence = ""
    /\ c_before = ""
    /\ c_closed = FALSE
    /\ c_current = ""
    /\ c_chunks = <<>>

\* lines 46-51: clean, split, empty chunks and current_chunk
ChunkClean ==
    /\ c_pc = "called"
    /\ c_pc' = "loop"
    /\ c_clean' = _clean_text(c_text)
    /\ c_sentences' = SplitSentences(c_clean')
    /\ c_chunks' = <<>>
    /\ c_current' = ""
    /\ UNCHANGED <<c_text, c_max, c_sentence, c_before, c_closed, process_vars, doc_vars, dir_vars,
                   peer_vars, maint_vars>>

\* lines 53-65: one iteration of the sentence loop
ChunkSentence ==
    /\ c_pc = "loop"
    /\ c_sentences # <<>>
    /\ \E st \in {ChunkStep([chunks |-> c_chunks, current_chunk |-> c_current],
                             Head(c_sentences), c_max, chunk_overlap)} :
          /\ c_chunks' = st.chunks
          /\ c_current' = st.current_chunk
          /\ c_closed' = (Len(st.chunks) > Len(c_chunks))
    /\ c_sentence' = Strip(Head(c_sentences))
    /\ c_before' = c_current
    /\ c_sentences' = Tail(c_sentences)
    /\ UNCHANGED <<c_pc, c_text, c_max, c_clean, process_vars, doc_vars, dir_vars,
                   peer_vars, maint_vars>>

\* lines 67-71: the last chunk and the return
ChunkReturn ==
    /\ c_pc = "loop"
    /\ c_sentences = <<>>
    /\ c_pc' = "returned"
    /\ c_chunks' = IF Strip(c_current) # "" THEN Append(c_chunks, Strip(c_current))
                   ELSE c_chunks
    /\ c_closed' = FALSE
    /\ UNCHANGED <<c_text, c_max, c_clean, c_sentences, c_sentence, c_before,
                   c_current, process_vars, doc_vars, dir_vars,
                   peer_vars, maint_vars>>

ChunkNext ==
    \/ ChunkClean
    \/ ChunkSentence
    \/ ChunkReturn

ChunkSpec == ChunkInit /\ [][ChunkNext]_vars

(***************************************************************************)
(* process_markdown_file called on its own, on an initialized processor    *)
(***************************************************************************)
\* the paths handed to process_markdown_file
DocPaths ==
    {"docs/blogs/intro.md", "docs/flox/intro.md", "docs/nix/shell.md",
     "docs/processed/a.md", "docs/misc/pasta.md", "docs/Flox/Guide.md",
     "docs/BLOGS/flox-nix.md", "docs/nix/flox.md", "docs/processed/nix.md",
     "docs/processed/blogs.md", "Docs/NIX/x.md", "docs/Processed/README.md"}

\* process_markdown_file(file_path) has been called and the file was read
DocInit ==
    /\ ProcessDown
    /\ ChunkIdle
    /\ DirIdle
    /\ PeerIdle
    /\ MaintIdle
    /\ d_pc = "called"
    /\ d_path \in DocPaths
    /\ d_content \in DocContents
    /\ d_type = ""
    /\ d_records = <<>>

\* line 68: doc_type = self._determine_doc_type(file_path)
DocType ==
    /\ d_pc = "called"
    /\ d_pc' = "typed"
    /\ d_type' = _determine_doc_type(d_path)
    /\ UNCHANGED <<d_path, d_content, d_records, process_vars, chunk_vars, dir_vars,
                   peer_vars, maint_vars>>

\* line 70: return self.process_document(file_path, content, doc_type)
DocProcess ==
    /\ d_pc = "typed"
    /\ d_pc' = "returned"
    /\ d_records' = process_document(d_path, d_content, d_type, 1)
    /\ UNCHANGED <<d_path, d_content, d_type, process_vars, chunk_vars, dir_vars,
                   peer_vars, maint_vars>>

DocNext ==
    \/ DocType
    \/ DocProcess

DocSpec == DocInit /\ [][DocNext]_vars

(***************************************************************************)
(* process_directory called on its own, on an initialized processor        *)
(***************************************************************************)
\* files that rglob may match; open() or read() raises on the unreadable ones
DirUniverse ==
    << [path |-> "docs/flox/changelog.md", readable |-> TRUE,  content |-> "Release notes."],
       [path |-> "docs/blogs/locked.md",   readable |-> FALSE, content |-> ""],
       [path |-> "docs/nix/handbook.md",   readable |-> TRUE,  content |-> TwoChunkDoc],
       [path |-> "docs/flox/latin1.md",    readable |-> FALSE, content |-> ""] >>

\* bound: number of files matched by one rglob
MaxMatches == 3

\* the match lists: up to MaxMatches different files in any order
DirListings ==
    {l \in UNION {[1..n -> 1..Len(DirUniverse)] : n \in 0..MaxMatches} :
        \A i, j \in 1..Len(l) : i # j => l[i] # l[j]}

\* lines 64-65: open(file_path) and f.read()
OpenAndRead(file) ==
    IF file.readable THEN [raised |-> FALSE, content |-> file.content]
    ELSE [raised |-> TRUE, content |-> ""]

\* variant of MarkdownFileCall: no except clause, the error of open() escapes
MarkdownFileCall_noexcept(file, first_id) ==
    LET r == OpenAndRead(file)
    IN  IF r.raised THEN [raised |-> TRUE, chunks |-> <<>>]
        ELSE [raised |-> FALSE,
              chunks |-> process_document(file.path, r.content,
                                          _determine_doc_type(file.path), first_id)]

\* process_markdown_file with its outcome: the except clause of lines 72-74
\* turns an error of open() or read() into an empty list
MarkdownFileCall(file, first_id) ==
    LET r == OpenAndRead(file)
    IN  IF r.raised THEN [raised |-> FALSE, chunks |-> <<>>]
        ELSE [raised |-> FALSE,
              chunks |-> process_document(file.path, r.content,
                                          _determine_doc_type(file.path), first_id)]

\* process_directory(directory_path) has been called
DirInit ==
    /\ ProcessDown
    /\ ChunkIdle
    /\ DocIdle
    /\ PeerIdle
    /\ MaintIdle
    /\ dir_pc = "called"
    /\ dir_exists \in BOOLEAN
    /\ dir_files \in IF dir_exists
                     THEN {[i \in 1..Len(l) |-> DirUniverse[l[i]]] : l \in DirListings}
                     ELSE {<<>>}
    /\ dir_i = 0
    /\ dir_chunks = <<>>
    /\ dir_outcome = "none"

\* lines 78-81: the exists() test, all_chunks = []
DirEnter ==
    /\ dir_pc = "called"
    /\ IF dir_exists
       THEN dir_pc' = "loop" /\ dir_outcome' = "none"
       ELSE dir_pc' = "done" /\ dir_outcome' = "returned"
    /\ dir_chunks' = <<>>
    /\ UNCHANGED <<dir_exists, dir_files, dir_i, process_vars, chunk_vars, doc_vars,
                   peer_vars, maint_vars>>

\* lines 82-85: one iteration of the rglob loop
DirFile ==
    /\ dir_pc = "loop"
    /\ dir_i < Len(dir_files)
    /\ dir_i' = dir_i + 1
    /\ \E r \in {MarkdownFileCall(dir_files[dir_i + 1], Len(dir_chunks) + 1)} :
          IF r.raised
          THEN dir_pc' = "done" /\ dir_outcome' = "raised" /\ dir_chunks' = dir_chunks
          ELSE dir_pc' = "loop" /\ dir_outcome' = "none"
               /\ dir_chunks' = dir_chunks \o r.chunks
    /\ UNCHANGED <<dir_exists, dir_files, process_vars, chunk_vars, doc_vars,
                   peer_vars, maint_vars>>

\* line 87: return all_chunks
DirReturn ==
    /\ dir_pc = "loop"
    /\ dir_i = Len(dir_files)
    /\ dir_pc' = "done"
    /\ dir_outcome' = "returned"
    /\ UNCHANGED <<dir_exists, dir_files, dir_i, dir_chunks, process_vars, chunk_vars,
                   doc_vars, peer_vars, maint_vars>>

DirNext ==
    \/ DirEnter
    \/ DirFile
    \/ DirReturn

DirSpec == DirInit /\ [][DirNext]_vars

(***************************************************************************)
(* Properties                                                              *)
(***************************************************************************)
RagApis == {"rag_search", "get_context"}

\* the query in flight has returned to its caller
Returned == q_pc = "done" /\ q_outcome = "returned"

\* the Retriever query in flight has returned from a ready service
RagReturned == Returned /\ q_api \in RagApis /\ rag_ready

NoFault == \A i \in 1..Len(calls) : calls[i].fault = "none"

ResultKey(r) == <<r.source, r.chunk_index>>

\* a result without its score: the chunk it stands for
ChunkOf(r) == [r EXCEPT !.relevance_score = 0]

Occurrences(seq, x) == Cardinality({i \in 1..Len(seq) : seq[i] = x})

SameBag(a, b) ==
    /\ Len(a) = Len(b)
    /\ \A i \in 1..Len(a) : Occurrences(a, a[i]) = Occurrences(b, a[i])

StoreKeys == {<<store[i].metadata.source_name, store[i].metadata.chunk_index>> :
                 i \in 1..Len(store)}

PreferredRows == {i \in 1..Len(store) : store[i].metadata.doc_type \in PreferredTypes}

\* C1: search_with_context first issues the filtered search for n results of
\* the types flox_docs / blog_post; the unfiltered search is issued exactly
\* when the first returned fewer than n results, after it, and asks for n
\* minus the number of results the first search returned.
C1_TwoPassProtocol ==
    /\ Len(calls) <= 2
    /\ \A i \in 1..Len(calls) : calls[i].pass = i
    /\ calls # <<>> =>
          /\ calls[1].n_results = q_n
          /\ calls[1].doc_types = {"flox_docs", "blog_post"}
          /\ calls[1].returned = Len(flox_results)
    /\ Len(calls) = 2 =>
          /\ calls[2].doc_types = {}
          /\ calls[2].n_results = q_n - calls[1].returned
          /\ calls[1].returned < q_n
    /\ (q_pc = "pass2") => (Len(calls) = 1 /\ calls[1].returned < q_n)
    /\ (q_pc = "done" /\ calls # <<>>) => (Len(calls) = 2 <=> calls[1].returned < q_n)
    /\ \A i \in 1..Len(index_log) :
          /\ index_log[i].pass \in 1..Len(calls)
          /\ index_log[i].n_results = calls[index_log[i].pass].n_results
          /\ index_log[i].doc_types = calls[index_log[i].pass].doc_types

\* C1 witness: the first search returned some but fewer than n results and
\* the second search was issued for the remainder
C1_Witness ==
    /\ q_pc = "done"
    /\ Len(calls) = 2
    /\ calls[1].returned >= 1
    /\ calls[2].n_results = q_n - calls[1].returned
    /\ Len(index_log) = 2

\* C2: the list returned by the Retriever holds no two results with the same
\* (source, chunk position) key.
C2_NoDuplicateKeys ==
    (Returned /\ q_api \in RagApis) =>
        \A i, j \in 1..Len(q_results) :
            i # j => ResultKey(q_results[i]) # ResultKey(q_results[j])

\* C3: when the service is ready and the index holds at least n = 5 chunks
\* with pairwise distinct keys, a Retriever search in which no call fails
\* returns exactly n results.
C3_MinimumResultCount ==
    (RagReturned /\ NoFault /\ Cardinality(StoreKeys) >= RAG_N_RESULTS) =>
        Len(q_results) = RAG_N_RESULTS

\* the score the Retriever is to give a result of search_with_context:
\* min(1.0, raw * a * b)
ExpectedScore(m, query) ==
    LET a == IF m.doc_type \in {"flox_docs", "blog_post"} THEN 1500 ELSE 1000
        b == IF /\ \E w \in {"flox", "manifest", "environment", "package", "service",
                            "activate"} : InLower(query, w)
                /\ InLower(m.content, "flox")
             THEN 1300 ELSE 1000
        p == (m.relevance_score * a * b) \div (ONE * ONE)
    IN  IF p > ONE THEN ONE ELSE p

Expected(m, query) == [m EXCEPT !.relevance_score = ExpectedScore(m, query)]

C5_BoostMonotone ==
    (Returned /\ q_api \in RagApis) =>
        \A i \in 1..Len(q_results), j \in 1..Len(merged) :
            ChunkOf(q_results[i]) = ChunkOf(merged[j]) =>
                /\ q_results[i].relevance_score >= merged[j].relevance_score
                /\ q_results[i].relevance_score <= ONE

\* C6: every result handed to the consumer carries a score within [0, 1].
C6_ScoreInUnitInterval ==
    Returned =>
        \A i \in 1..Len(q_results) :
            /\ q_results[i].relevance_score >= 0
            /\ q_results[i].relevance_score <= ONE

\* C7: the list returned by FloxRAGService.search is in non-increasing order
\* of boosted score and is a permutation of the deduplicated merged list.
C7_SortedPermutation ==
    (Returned /\ q_api \in RagApis) =>
        /\ \A i, j \in 1..Len(q_results) :
              i < j => q_results[i].relevance_score >= q_results[j].relevance_score
        /\ SameBag([i \in 1..Len(q_results) |-> ChunkOf(q_results[i])],
                   [i \in 1..Len(merged) |-> ChunkOf(merged[i])])

\* C7 witness: sorting moved a result ahead of one that preceded it in the
\* merged list
C7_Witness ==
    /\ RagReturned
    /\ Len(q_results) >= 2
    /\ q_results[1].relevance_score > q_results[Len(q_results)].relevance_score
    /\ ChunkOf(q_results[1]) # ChunkOf(merged[1])

\* C8: on an empty index the Retriever search returns the empty list and
\* get_context_for_query returns ("", []); whenever the search returns no
\* result the context is the empty string and the list is empty.
C8_EmptyIndex ==
    /\ (Returned /\ q_api \in RagApis /\ store = <<>>) =>
          (q_results = <<>> /\ q_context_out = "")
    /\ (Returned /\ q_api = "get_context" /\ merged = <<>>) =>
          (q_results = <<>> /\ q_context_out = "")

\* C8 witness: get_context_for_query ran both searches on an empty index
C8_Witness ==
    /\ RagReturned
    /\ q_api = "get_context"
    /\ store = <<>>
    /\ Len(index_log) = 2
    /\ q_results = <<>>
    /\ q_context_out = ""

\* C9: no query ends with an exception, whatever the service state and
\* whichever call fails; a Retriever query on a service that is not ready
\* returns [] / ("", []).
C9_NoQueryError ==
    /\ q_outcome # "raised"
    /\ q_pc = "done" => q_outcome = "returned"
    /\ (q_pc = "done" /\ q_api \in RagApis /\ ~rag_ready) =>
          (q_results = <<>> /\ q_context_out = "" /\ calls = <<>>)

\* C9 witness: the embedding or the index call of a Retriever query raised
\* and the query still returned
C9_Witness ==
    /\ RagReturned
    /\ \E i \in 1..Len(calls) : calls[i].fault # "none"

\* C10 as stated: a failure to load the embedder or the document store, or
\* to open the collection, ends initialize with an error to its caller.
C10_InitFailureRaised ==
    (vinit_outcome # "none" /\ init_fault # "none") => vinit_outcome = "raised"

\* C10 amended: such a failure is swallowed; both initialize calls return
\* normally and leave is_ready false on both services.
C10_InitFailureSwallowed ==
    (vinit_outcome # "none" /\ init_fault # "none") =>
        /\ vinit_outcome = "returned"
        /\ ~vs_ready
        /\ ~rag_ready
        /\ phase = "serving" => rinit_outcome = "returned"

\* C10 witness: start-up completed although the collection could not be opened
C10_Witness ==
    /\ phase = "serving"
    /\ init_fault = "collection"
    /\ rinit_outcome = "returned"
    /\ ~rag_ready

\* C11: when generate_embeddings raises inside load_documents, the error
\* reaches the caller of the load and the collection is left exactly as it
\* was before the call.
C11_EmbeddingFailureAborts ==
    [][(phase = "vector_done" /\ phase' = "serving" /\ load_fault' = "embed") =>
          /\ store' = store
          /\ rinit_outcome' = "raised"
          /\ ~rag_ready']_vars

\* C11 witness: the embedding call of a second start-up raised on a
\* collection that the first start-up had filled
C11_Witness ==
    /\ phase = "serving"
    /\ load_fault = "embed"
    /\ rinit_outcome = "raised"
    /\ starts = 2
    /\ Len(store) >= 2
    /\ Len(corpus) >= 2

\* the stored rows without their ids
Rows(coll) == {[document |-> coll[i].document, metadata |-> coll[i].metadata] :
                  i \in 1..Len(coll)}

\* C12: a bulk load that succeeds over a collection already filled from the
\* same corpus leaves the collection with the same entries and the same
\* entry count.
C12_LoadIsIdempotentReplace ==
    [][(/\ phase = "vector_done" /\ phase' = "serving"
        /\ load_stats'.status = "success"
        /\ store # <<>>) =>
          /\ Len(store') = Len(store)
          /\ Rows(store') = Rows(store)]_vars

\* C13: after a successful load of a non-empty chunk list, the stats dict
\* returned by the load and the collection stats both report total_chunks
\* equal to the number of chunks loaded, and total_documents is the number
\* of distinct source files among them.
C13_StatsAfterLoad ==
    (phase = "serving" /\ load_stats.status = "success" /\ loaded # <<>>) =>
        /\ load_stats.total_chunks = Len(loaded)
        /\ load_stats.total_documents =
              Cardinality({loaded[i].source_file : i \in 1..Len(loaded)})
        /\ get_collection_stats(store, vs_ready, has_collection).total_chunks = Len(loaded)

\* C14: a text no longer than max_size comes back as exactly one chunk, the
\* cleaned text itself.
C14_SmallTextOneChunk ==
    (c_pc = "returned" /\ Len(c_text) <= c_max) => c_chunks = <<c_clean>>

\* length of the longest prefix of chunk, at most chunk_overlap characters,
\* that is also a suffix of prev
OverlapRegion(prev, chunk) ==
    LET ks == {k \in 0..Min(chunk_overlap, Min(Len(prev), Len(chunk))) :
                  Take(chunk, k) = SubSeq(prev, Len(prev) - k + 1, Len(prev))}
    IN  CHOOSE k \in ks : \A j \in ks : j <= k

RECURSIVE Rebuild(_, _)
\* chunks[1..i] put back together: every chunk after the first loses its
\* overlap region, and the pieces are joined by one blank
Rebuild(chunks, i) ==
    IF i = 0 THEN ""
    ELSE IF i = 1 THEN chunks[1]
    ELSE Rebuild(chunks, i - 1) \o " " \o
         Strip(Drop(chunks[i], OverlapRegion(chunks[i - 1], chunks[i])))

\* C15: the chunks of a text, put back together without their overlap
\* regions, are the cleaned text.
C15_Reconstruction ==
    c_pc = "returned" => Rebuild(c_chunks, Len(c_chunks)) = c_clean

\* C16: no chunk is empty or whitespace-only, at any point of the call and
\* for every max_size, and an empty or whitespace-only text yields no chunk.
C16_NoBlankChunks ==
    /\ \A i \in 1..Len(c_chunks) : Strip(c_chunks[i]) # ""
    /\ (c_pc = "returned" /\ Strip(c_text) = "") => c_chunks = <<>>

\* C16 witness: a whitespace-only text has been chunked
C16_Witness ==
    /\ c_pc = "returned"
    /\ c_text # ""
    /\ Strip(c_text) = ""
    /\ c_chunks = <<>>

\* s.endswith(p)
EndsWith(s, p) == Len(p) <= Len(s) /\ SubSeq(s, Len(s) - Len(p) + 1, Len(s)) = p

\* C17 as stated: whenever a chunk is closed, the next chunk's buffer begins
\* with the last chunk_overlap characters of the closed buffer (all of it
\* when it is shorter) and ends with the sentence that did not fit.
C17_OverlapAlways ==
    c_closed =>
        /\ StartsAt(c_current, 1, Tail_k(c_before, chunk_overlap))
        /\ EndsWith(c_current, c_sentence)
        /\ Len(c_current) >= Len(Tail_k(c_before, chunk_overlap)) + Len(c_sentence)

\* C17 amended: whenever a chunk is closed, the closed chunk is the stripped
\* buffer, and the next buffer is the last chunk_overlap characters of the
\* closed buffer, a blank and the sentence that did not fit when the closed
\* buffer is longer than chunk_overlap, and a blank and that sentence alone
\* when it is not.
C17_OverlapWhenLonger ==
    c_closed =>
        /\ c_chunks[Len(c_chunks)] = Strip(c_before)
        /\ Len(c_before) > chunk_overlap =>
              c_current = SubSeq(c_before, Len(c_before) - chunk_overlap + 1, Len(c_before))
                             \o " " \o c_sentence
        /\ Len(c_before) <= chunk_overlap => c_current = " " \o c_sentence

\* C17 witness: a second chunk was closed with a buffer longer than
\* chunk_overlap
C17_Witness ==
    /\ c_closed
    /\ Len(c_chunks) >= 2
    /\ Len(c_before) > chunk_overlap
    /\ c_sentence # ""

\* C18: every record returned for a document has 0 <= chunk_index <
\* total_chunks and content that is not blank; the records of the document
\* have pairwise distinct chunk_index and the same total_chunks.
C18_RecordIndexes ==
    d_pc = "returned" =>
        /\ \A i \in 1..Len(d_records) :
              /\ 0 <= d_records[i].chunk_index
              /\ d_records[i].chunk_index < d_records[i].total_chunks
              /\ Strip(d_records[i].content) # ""
        /\ \A i, j \in 1..Len(d_records) :
              /\ i # j => d_records[i].chunk_index # d_records[j].chunk_index
              /\ d_records[i].total_chunks = d_records[j].total_chunks

\* C18 witness: a document came back as three records
C18_Witness ==
    /\ d_pc = "returned"
    /\ Len(d_records) = 3
    /\ d_records[3].chunk_index = 2

\* the ordered keyword list of the claim
DocTypeKeywords ==
    << [keyword |-> "blogs",     doc_type |-> "blog_post"],
       [keyword |-> "flox",      doc_type |-> "flox_docs"],
       [keyword |-> "nix",       doc_type |-> "nix_docs"],
       [keyword |-> "processed", doc_type |-> "processed_docs"] >>

\* the type of the first keyword found in the lowered path, "general" when
\* there is none
FirstMatch(path) ==
    LET hits == {k \in 1..Len(DocTypeKeywords) :
                    Contains(Lower(path), DocTypeKeywords[k].keyword)}
    IN  IF hits = {} THEN "general"
        ELSE DocTypeKeywords[CHOOSE k \in hits : \A j \in hits : k <= j].doc_type

\* C19: the document type is that of the first keyword of the ordered list
\* blogs, flox, nix, processed found in the path regardless of case, and
\* "general" when none is found.
C19_DocTypeFirstMatch ==
    d_pc \in {"typed", "returned"} => d_type = FirstMatch(d_path)

\* C19 witness: a path that holds the first keyword in capitals and two
\* later keywords was typed by the first
C19_Witness ==
    /\ d_pc = "typed"
    /\ d_path = "docs/BLOGS/flox-nix.md"
    /\ d_type = "blog_post"

\* C20: in every record the category is blog, flox_docs or nix_docs exactly
\* when the document type is blog_post, flox_docs or nix_docs respectively.
C20_CategoryFollowsDocType ==
    d_pc = "returned" =>
        \A i \in 1..Len(d_records) :
            /\ d_records[i].category = "blog" <=> d_records[i].doc_type = "blog_post"
            /\ d_records[i].category = "flox_docs" <=> d_records[i].doc_type = "flox_docs"
            /\ d_records[i].category = "nix_docs" <=> d_records[i].doc_type = "nix_docs"

RECURSIVE ReadableChunks(_)
\* <<path, chunk_index, content>> for every chunk of every readable file of
\* the list, in order
ReadableChunks(files) ==
    IF files = <<>> THEN <<>>
    ELSE LET f  == Head(files)
             cs == FileChunks[f.content]
         IN  (IF f.readable THEN [k \in 1..Len(cs) |-> <<f.path, k - 1, cs[k]>>] ELSE <<>>)
             \o ReadableChunks(Tail(files))

\* C21: process_directory never ends with an exception, and what it returns
\* is exactly the chunks of the readable files, in traversal order, whatever
\* unreadable files lie between them.
C21_BestEffortIngestion ==
    dir_pc = "done" =>
        /\ dir_outcome = "returned"
        /\ dir_i = Len(dir_files)
        /\ [k \in 1..Len(dir_chunks) |->
               <<dir_chunks[k].source_file, dir_chunks[k].chunk_index, dir_chunks[k].content>>]
             = ReadableChunks(dir_files)

\* C21 witness: an unreadable file came first and the chunks of the readable
\* files after it were returned
C21_Witness ==
    /\ dir_pc = "done"
    /\ dir_outcome = "returned"
    /\ Len(dir_files) >= 2
    /\ ~dir_files[1].readable
    /\ dir_files[Len(dir_files)].readable
    /\ dir_chunks # <<>>

\* C22: a Retriever query answered by a ready service without any failing
\* call has made exactly one embedding call and at most two index queries.
C22_OneEmbeddingCall ==
    (RagReturned /\ NoFault) =>
        /\ embed_calls = 1
        /\ Len(index_log) <= 2

\* C23: when the embedding or the index call of a Retriever query fails, the
\* query returns the empty list and the failed call is the last call made
\* for the query.
C23_FailureEndsQuery ==
    (RagReturned /\ ~NoFault) =>
        /\ q_results = <<>>
        /\ \A i \in 1..Len(calls) : calls[i].fault # "none" => i = Len(calls)

\* what the request returns when its searches run back to back, with no other
\* request in between and no failing call
SequentialAnswer(api, query, context, n) ==
    LET enhanced == EnhancedQuery(query, context)
        flox     == VectorSearch(store, vs_ready, enhanced, n, PreferredTypes, "none").results
        m        == IF EnoughResults(flox, n) THEN flox
                    ELSE CombineResults(flox,
                             VectorSearch(store, vs_ready, enhanced, Pass2Count(flox, n),
                                          {}, "none").results, n)
    IN  Finalize(api, m, query)

\* C24: no step of a request changes the collection, the store on disk, the
\* readiness flags or the embedder, whether its calls fail or not; and with
\* two requests interleaved step by step, each request whose calls did not
\* fail returns what it returns when it runs alone.
C24_QueriesReadOnly ==
    /\ [][UNCHANGED <<disk_vars, service_vars>>]_vars
    /\ []((Returned /\ NoFault) =>
             /\ q_results = SequentialAnswer(q_api, q_query, q_context, q_n).results
             /\ q_context_out = SequentialAnswer(q_api, q_query, q_context, q_n).context)
    /\ []((p_pc = "done" /\ p_api = "rag_search" /\ ~p_faulted) =>
             p_results = SequentialAnswer("rag_search", p_query, RAG_CONTEXT,
                                          RAG_N_RESULTS).results)
    /\ []((p_pc = "done" /\ p_api = "stats") =>
             p_stats = get_collection_stats(store, vs_ready, has_collection))

\* one request has returned results from both passes while the other request
\* is between its two searches
C24_Witness ==
    /\ Returned /\ NoFault
    /\ Len(calls) = 2
    /\ q_results # <<>>
    /\ p_pc = "pass2"
    /\ p_flox # <<>>

\* C25: is_ready of FloxRAGService turns true only in the step that ends
\* initialize, with the vector service ready and load_documents returned
\* without raising; a Retriever query answered while it is false returns
\* [] / ("", []) and has made no embedding call and no index query.
C25_ReadyOnlyAfterLoad ==
    /\ [][(~rag_ready /\ rag_ready') =>
             /\ phase = "vector_done" /\ phase' = "serving"
             /\ vs_ready /\ vs_ready'
             /\ rinit_outcome' = "returned"
             /\ load_fault' = "none"
             /\ docs_exists => load_stats'.status \in {"success", "no_documents"}]_vars
    /\ []((q_pc = "done" /\ q_api \in RagApis /\ ~rag_ready) =>
             /\ q_outcome = "returned"
             /\ q_results = <<>>
             /\ q_context_out = ""
             /\ index_log = <<>>
             /\ embed_calls = 0)

\* a get_context_for_query call answered after the vector service became
\* ready and before load_documents has run over a non-empty tree
C25_Witness ==
    /\ phase = "vector_done"
    /\ vs_ready
    /\ ~rag_ready
    /\ corpus # <<>>
    /\ q_pc = "done"
    /\ q_api = "get_context"

\* the block the context holds for one result
ExpectedBlock(r) ==
    "[" \o (IF r.doc_type = "flox_docs" THEN "Flox Documentation"
            ELSE IF r.doc_type = "flox_knowledge" THEN "FloxAI Knowledge"
            ELSE IF r.doc_type = "best_practices" THEN "Flox Best Practices"
            ELSE "Documentation")
        \o "] " \o r.source \o "\n" \o r.content

\* C26: the context returned by get_context_for_query is made of the blocks
\* of the first min(3, number of results) results of the sorted list, in that
\* order, with "\n\n---\n\n" between two blocks; flox_docs is labelled
\* 'Flox Documentation' and a type without a mapping 'Documentation'; the
\* list returned with it is the whole sorted result list.
C26_ContextOfTopThree ==
    (Returned /\ q_api = "get_context" /\ merged # <<>>) =>
        /\ q_results = BoostAndSort(merged, q_query)
        /\ Len(q_results) = Len(merged)
        /\ q_context_out =
              CASE Len(q_results) = 1 -> ExpectedBlock(q_results[1])
                [] Len(q_results) = 2 -> ExpectedBlock(q_results[1]) \o "\n\n---\n\n" \o
                                         ExpectedBlock(q_results[2])
                [] OTHER              -> ExpectedBlock(q_results[1]) \o "\n\n---\n\n" \o
                                         ExpectedBlock(q_results[2]) \o "\n\n---\n\n" \o
                                         ExpectedBlock(q_results[3])

\* more than three results, with a flox_docs chunk and a chunk of a type
\* without a mapping among the first three
C26_Witness ==
    /\ Returned
    /\ q_api = "get_context"
    /\ Len(q_results) > 3
    /\ \E i \in 1..3 : q_results[i].doc_type = "flox_docs"
    /\ \E i \in 1..3 : q_results[i].doc_type \in {"blog_post", "nix_docs"}

\* C27: whenever the service is up after a successful load, the collection
\* holds one row per (source file, chunk position) of the corpus and as many
\* rows as the corpus has chunks, however many start-ups came before.
C27_CollectionMatchesCorpus ==
    (phase = "serving" /\ load_stats.status = "success") =>
        /\ Len(store) = Len(loaded)
        /\ \A i, j \in 1..Len(store) :
              (/\ store[i].metadata.source_file = store[j].metadata.source_file
               /\ store[i].metadata.chunk_index = store[j].metadata.chunk_index) => i = j
        /\ \A k \in 1..Len(loaded) :
              \E i \in 1..Len(store) :
                  /\ store[i].metadata.source_file = loaded[k].source_file
                  /\ store[i].metadata.chunk_index = loaded[k].chunk_index

\* C28: a clear_collection call either returns True and leaves the collection
\* existing and empty, with the service ready and holding it, or returns
\* False and leaves the collection and its rows as they were; on a service
\* that is not ready it returns False.
C28_ClearAllOrNothing ==
    [][m_pc = "clear" =>
          /\ \/ /\ m_clear' = "true"
                /\ store' = <<>> /\ store_exists'
                /\ vs_ready' /\ has_collection'
             \/ /\ m_clear' = "false"
                /\ UNCHANGED <<store, store_exists>>
          /\ ~vs_ready => m_clear' = "false"]_vars

\* C29: when migrate_documents has returned True the collection holds the
\* chunks of that run's load and nothing else, whatever it held before and
\* however the clear step ended; when it returned False before the clear
\* step, the rows are those the run found.
C29_MigrationReplaces ==
    /\ (m_op = "migrate" /\ m_result = "true") =>
          /\ Len(store) = m_stats.chunks_processed
          /\ Rows(store) = Rows(ChunkEntries(process_directory(corpus, 1)))
    /\ (m_op = "migrate" /\ m_result = "false" /\ m_clear = "none") =>
          store = m_prior

\* the keys of the results of the first search
Pass1Keys == {ResultKey(flox_results[i]) : i \in 1..Len(flox_results)}

\* C30: the list search_with_context returned has at most n results; every
\* result of the first search is in it and comes before every result that
\* only the second search found; a key found by both searches stands in the
\* list with its result from the first search; no key found by either search
\* is missing from the list; and in the list FloxRAGService.search returns,
\* two results with the same boosted score stand in the order they had in
\* the merged list.
C30_MergeOrder ==
    Returned =>
        /\ Len(merged) <= q_n
        /\ \A i \in 1..Len(flox_results) :
              \E j \in 1..Len(merged) : merged[j] = flox_results[i]
        /\ \A j, k \in 1..Len(merged) :
              (ResultKey(merged[j]) \in Pass1Keys /\ ResultKey(merged[k]) \notin Pass1Keys)
                  => j < k
        /\ \A j \in 1..Len(merged) :
              ResultKey(merged[j]) \in Pass1Keys =>
                  \E i \in 1..Len(flox_results) : flox_results[i] = merged[j]
        /\ \A i \in 1..Len(general_results) :
              \E j \in 1..Len(merged) : ResultKey(merged[j]) = ResultKey(general_results[i])
        /\ q_api \in RagApis =>
              \A i, j \in 1..Len(q_results) :
                  (i < j /\ q_results[i].relevance_score = q_results[j].relevance_score) =>
                      \E a, b \in 1..Len(merged) :
                          /\ a < b
                          /\ ChunkOf(merged[a]) = ChunkOf(q_results[i])
                          /\ ChunkOf(merged[b]) = ChunkOf(q_results[j])
====
